---- MODULE Spec2Model ----
(***************************************************************************)
(* Model of the IBData live/historical reconciliation state machine        *)
(* (backtrader/feeds/ibdata.py): start(), reqdata(), the _load() loop with *)
(* its four states, and the two bar assemblers _load_rtbar and             *)
(* _load_rtvolume.  One action per branch of one iteration of the          *)
(* `while True` loop of _load: the loop blocks on the live and historical  *)
(* queues, which the store's thread fills concurrently.                    *)
(***************************************************************************)
EXTENDS Integers, Sequences, FiniteSets, TLC

-----------------------------------------------------------------------------
(* Bounds of the model *)

\* message and seed timestamps are the datetimes 1..MaxTime
MaxTime == 2
\* bars held by the auxiliary seed source (backfill_from)
MaxSeed == 2
\* inputs fed to the feed over a run: the bars of the seed source and the
\* messages the gateway puts on the two queues
MaxMsgs == 3
\* messages waiting in a queue
MaxQueue == 2
\* the largest cash / value a store reports for an account
MaxAmount == 1

Times == 1..MaxTime

-----------------------------------------------------------------------------
(* Values of the program *)

\* Python None where a datetime is expected (dtend / dtbegin / msg.date)
NoneDate == 0

\* float('-inf') / float('inf'): the unset fromdate / todate
NegInf == -1000
PosInf == 1000

\* gateway status codes multiplexed on the queues as bare integers
NOTSUBSCRIBED_CODE == -354
NOPERMISSION_CODE == -420
CONNBROKEN_CODE == -1100
CONNRESTORED_LOST_CODE == -1101
CONNRESTORED_KEPT_CODE == -1102
\* an integer outside every recognised set ("not connected")
OTHER_CODE == -504

\* the integers the gateway sends on the live queue (-420 is outside the set
\* the live state recognises) and on the historical queue
LiveCodes == {NOTSUBSCRIBED_CODE, NOPERMISSION_CODE, CONNBROKEN_CODE,
              CONNRESTORED_LOST_CODE, CONNRESTORED_KEPT_CODE}
HistCodes == {NOTSUBSCRIBED_CODE, NOPERMISSION_CODE, OTHER_CODE}

\* states of the finite state machine in _load
ST_FROM == "_ST_FROM"
ST_START == "_ST_START"
ST_LIVE == "_ST_LIVE"
ST_HISTORBACK == "_ST_HISTORBACK"

\* TimeFrame.Seconds and the compressions a feed is configured with
Seconds == 3
RTBAR_MINSIZE == <<Seconds, 5>>
Compressions == {1, 5}

\* date2num / num2date: datetime <-> the float kept in lines.datetime
\* (order preserving, exact on the timestamps the gateway sends)
NumOrigin == 100
date2num(d) == d + NumOrigin
num2date(n) == n - NumOrigin

-----------------------------------------------------------------------------
(* Messages on the queues *)

\* msg is None: the queue was cancelled, connection broken
NullMsg == [kind |-> "None"]
\* a bare integer
IntMsg(c) == [kind |-> "int", value |-> c]
\* RTVolume tick (reqMktData): datetime, price, size
RTVolumeMsg(t) == [kind |-> "rtvol", datetime |-> t, price |-> 10 + t, size |-> 20 + t]
\* 5 seconds real-time bar (reqRealTimeBars): time, open, high, low, close, volume
RTBarMsg(t) == [kind |-> "rtbar", time |-> t, open |-> 30 + t, high |-> 40 + t,
                low |-> 50 + t, close |-> 60 + t, volume |-> 70 + t]
\* historical bar: same as a real-time bar with date instead of time;
\* date = None ends the historical stream
HistMsg(d) == [kind |-> "hist", date |-> d, open |-> 30 + d, high |-> 40 + d,
               low |-> 50 + d, close |-> 60 + d, volume |-> 70 + d]
EndOfHist == HistMsg(NoneDate)

IsInteger(msg) == msg.kind = "int"
IsNone(msg) == msg.kind = "None"

\* a bar of the output series (the lines of the feed)
Bar(dt, o, h, l, c, v, oi) ==
    [datetime |-> dt, open |-> o, high |-> h, low |-> l, close |-> c,
     volume |-> v, openinterest |-> oi]

\* a bar of the seed source, its datetime already a number
SeedBar(t) == Bar(date2num(t), 80 + t, 81 + t, 82 + t, 83 + t, 84 + t, 85 + t)

RECURSIVE SeqsUpTo(_, _)
SeqsUpTo(S, n) ==
    IF n = 0 THEN {<<>>}
    ELSE LET shorter == SeqsUpTo(S, n - 1)
         IN  shorter \cup {Append(s, x) : s \in {q \in shorter : Len(q) = n - 1}, x \in S}

-----------------------------------------------------------------------------
VARIABLES
    p,                \* the params of the feed (self.p, fromdate, todate, tf/compression)
    backfill_from,    \* bars left in the seed source p.backfill_from
    pc,               \* "new" | "idle" | "load" | "done" | "stopped": where the driver is
    lastret,          \* what the last finished _load call returned
    ops,              \* the branches taken so far by the current _load call
    st,               \* self._state
    statelivereconn,  \* self._statelivereconn
    storedmsg,        \* self._storedmsg: <<>> or <<msg>> (the entry under None)
    usertvol,         \* self._usertvol
    contract,         \* self.contract is not None
    qlive,            \* self.qlive
    qhist,            \* self.qhist
    histopen,         \* the gateway still streams into qhist
    lines,            \* the bars delivered to the output series
    origin,           \* which state of _load delivered each bar of lines
    notifs,           \* the notifications put, in order
    laststatus,       \* self._laststatus
    histreq,          \* the last reqHistoricalDataEx: <<>> or <<[dtend, dtbegin]>>
    nhistreq,         \* number of reqHistoricalDataEx calls
    nreconnect,       \* number of ib.reconnect(resub=True) calls
    nreqdata,         \* number of reqdata() calls made by _load
    sent,             \* inputs fed so far: seed bars, messages the gateway has put
    subscribed,       \* the gateway holds a live subscription of this feed
    brokers,          \* CCXTMultiBroker.brokers: exchange -> BrokerAccount
    total_cash,       \* CCXTMultiBroker.total_cash
    total_value,      \* CCXTMultiBroker.total_value
    bret              \* the last query of the broker and what it returned

vars == <<p, backfill_from, pc, lastret, ops, st, statelivereconn, storedmsg,
          usertvol, contract, qlive, qhist, histopen, lines, origin, notifs,
          laststatus, histreq, nhistreq, nreconnect, nreqdata, sent, subscribed,
          brokers, total_cash, total_value, bret>>

\* the state of the broker
bvars == <<brokers, total_cash, total_value, bret>>

\* the branch taken by the last step of the feed
LastOp == IF ops = <<>> THEN "-" ELSE ops[Len(ops)]

-----------------------------------------------------------------------------
(* Helpers translated from the code *)

\* start(): _usertvol = not rtbar, forced True when (timeframe, compression)
\* is below RTBAR_MINSIZE (tuples compare lexicographically)
UseRTVolume(params) ==
    \/ ~params.rtbar
    \/ params.timeframe < RTBAR_MINSIZE[1]
    \/ (params.timeframe = RTBAR_MINSIZE[1] /\ params.compression < RTBAR_MINSIZE[2])

\* put_notification(status, *args): queue the status, remember it as the last one
PutNotification(ns, status, arg) == Append(ns, <<status, arg>>)

\* len(self) inside _load: the series was forwarded for the bar being loaded
LenSelf == Len(lines) + 1

\* the comparison written as dt < self.lines.datetime[-1]
TooLateStrict(dt) ==
    /\ lines # <<>>
    /\ dt < lines[Len(lines)].datetime
    /\ ~p.latethrough

\* dt <= self.lines.datetime[-1] and not self.p.latethrough
\* (with no delivered bar lines.datetime[-1] is NaN and the comparison is False)
TooLate(dt) ==
    /\ lines # <<>>
    /\ dt <= lines[Len(lines)].datetime
    /\ ~p.latethrough

\* _load_rtbar letting every historical bar through
LoadRTBarHistUnchecked(rtbar, hist) ==
    LET dt == date2num(IF hist THEN rtbar.date ELSE rtbar.time)
    IN  IF ~hist /\ TooLate(dt)
        THEN [ret |-> FALSE, lines |-> lines]
        ELSE [ret |-> TRUE,
              lines |-> Append(lines, Bar(dt, rtbar.open, rtbar.high, rtbar.low,
                                          rtbar.close, rtbar.volume, 0))]

\* _load_rtbar(rtbar, hist): the result and the bar written to the lines
LoadRTBar(rtbar, hist) ==
    LET dt == date2num(IF hist THEN rtbar.date ELSE rtbar.time)
    IN  IF TooLate(dt)
        THEN [ret |-> FALSE, lines |-> lines]
        ELSE [ret |-> TRUE,
              lines |-> Append(lines, Bar(dt, rtbar.open, rtbar.high, rtbar.low,
                                          rtbar.close, rtbar.volume, 0))]

\* _load_rtvolume writing the tick price as the volume
LoadRTVolumeTickVolume(rtvol) ==
    LET dt == date2num(rtvol.datetime)
        tick == rtvol.price
    IN  IF TooLate(dt)
        THEN [ret |-> FALSE, lines |-> lines]
        ELSE [ret |-> TRUE,
              lines |-> Append(lines, Bar(dt, tick, tick, tick, tick, tick, 0))]

\* _load_rtvolume(rtvol)
LoadRTVolume(rtvol) ==
    LET dt == date2num(rtvol.datetime)
        tick == rtvol.price
    IN  IF TooLate(dt)
        THEN [ret |-> FALSE, lines |-> lines]
        ELSE [ret |-> TRUE,
              lines |-> Append(lines, Bar(dt, tick, tick, tick, tick, rtvol.size, 0))]

\* the live backfill window with the test written len(self) > 2
BackfillBeginOffByOne ==
    IF LenSelf > 2 THEN num2date(lines[Len(lines)].datetime)
    ELSE IF p.fromdate > NegInf THEN num2date(p.fromdate)
    ELSE NoneDate

\* the live backfill window: dtbegin
BackfillBegin ==
    IF LenSelf > 1 THEN num2date(lines[Len(lines)].datetime)
    ELSE IF p.fromdate > NegInf THEN num2date(p.fromdate)
    ELSE NoneDate

\* the live backfill window: dtend
BackfillEnd(msg) == IF usertvol THEN msg.datetime ELSE msg.time

\* the historical-only window without its begin
HistoricalBeginUnbounded == NoneDate

\* the historical-only window
HistoricalEnd == IF p.todate < PosInf THEN num2date(p.todate) ELSE NoneDate
HistoricalBegin == IF p.fromdate > NegInf THEN num2date(p.fromdate) ELSE NoneDate

\* the Delayed status put on every backfill
BackfillPutsDelayedAlways == TRUE

\* the Delayed status on starting a backfill is put unless it is the last status
BackfillPutsDelayed == laststatus # "DELAYED"

\* the message that triggers the backfill is dropped
KeepMsgDropped(msg) == <<>>

\* self._storedmsg[None] = msg: keep the message that triggers the backfill
KeepMsg(msg) == <<msg>>

\* the live timeout reported as a failure
TimeoutResultFalse == "False"

\* queue.Empty: return None
TimeoutResult == "None"

\* a failed reconnection that puts no DISCONNECTED
NullFailedNotifsSilent(ns) == PutNotification(ns, "CONNBROKEN", 0)

\* msg is None and the reconnection fails: CONNBROKEN, then DISCONNECTED
NullFailedNotifs(ns) ==
    PutNotification(PutNotification(ns, "CONNBROKEN", 0), "DISCONNECTED", 0)

\* the Live status put whenever the queue is very short
DataPutsLiveShortQueue(q) == Len(q) <= 1

\* the Live status is put unless it is the last status, with a very short queue
DataPutsLive(q) == laststatus # "LIVE" /\ Len(q) <= 1

\* msg = self._storedmsg.pop(None, None) or self.qlive.get(timeout=qcheck)
LiveMsgReady == storedmsg # <<>> \/ qlive # <<>>
LiveMsg == IF storedmsg # <<>> THEN storedmsg[1] ELSE Head(qlive)
QLiveAfterGet == IF storedmsg # <<>> THEN qlive ELSE Tail(qlive)

-----------------------------------------------------------------------------
(* CCXTMultiBroker: values and queries *)

\* Python None where an exchange name is expected
None == "None"

\* exchange names as the callers write them, and str.lower()
ExchangeNames == {"X1", "x1", "x2"}
Lower(name) == IF name = "X1" THEN "x1" ELSE name

\* what a store reports as cash / value, and the conversion rates
Amounts == 0..MaxAmount
Rates == {1, 2}

\* BrokerAccount(store, currency, rate)
BrokerAccount(rate) == [cash |-> 0, value |-> 0, currency_conversion_rate |-> rate]

\* broker(exchange)
Broker(exchange) == brokers[Lower(exchange)]

\* getcash(exchange = None)
getcash(exchange) == IF exchange = None THEN total_cash ELSE Broker(exchange).cash

\* getvalue(datas = None, exchange = None)
getvalue(datas, exchange) == IF exchange = None THEN total_value ELSE Broker(exchange).value

\* the sum over the accounts of amount * rate
RECURSIVE Aggregate(_, _)
Aggregate(amount, accounts) ==
    IF DOMAIN accounts = {} THEN 0
    ELSE LET e == CHOOSE x \in DOMAIN accounts : TRUE
             rest == [x \in DOMAIN accounts \ {e} |-> accounts[x]]
         IN  amount[e] * accounts[e].currency_conversion_rate + Aggregate(amount, rest)

\* no query made yet
NoCall == [op |-> "-", exchange |-> None, cached |-> FALSE, result |-> 0]

\* CCXTMultiBroker.__init__
BrokerInit ==
    /\ brokers = [e \in {} |-> BrokerAccount(1)]
    /\ total_cash = 0
    /\ total_value = 0
    /\ bret = NoCall

-----------------------------------------------------------------------------
(* Construction and start() *)

Params ==
    [rtbar : BOOLEAN, historical : BOOLEAN, backfill_start : BOOLEAN,
     backfill : BOOLEAN, latethrough : BOOLEAN, seeded : BOOLEAN,
     fromdate : {NegInf, date2num(1)}, todate : {PosInf, date2num(MaxTime)},
     timeframe : {Seconds}, compression : Compressions, cashtype : {FALSE}]

Init ==
    /\ p \in Params
    /\ backfill_from \in {[i \in DOMAIN s |-> SeedBar(s[i])] : s \in SeqsUpTo(Times, MaxSeed)}
    /\ (p.seeded <=> backfill_from # <<>>)
    \* a parameter the configuration never reads is left at its default
    /\ (p.historical => ~p.rtbar /\ p.backfill_start /\ p.backfill)
    /\ (~p.historical => p.todate = PosInf)
    /\ (~p.rtbar => p.compression = 1)
    /\ pc = "new"
    /\ lastret = "-"
    /\ ops = <<>>
    /\ st = ST_START
    /\ statelivereconn = FALSE
    /\ storedmsg = <<>>
    /\ usertvol = FALSE
    /\ contract = FALSE
    /\ qlive = <<>>
    /\ qhist = <<>>
    /\ histopen = FALSE
    /\ lines = <<>>
    /\ origin = <<>>
    /\ notifs = <<>>
    /\ laststatus = "-"
    /\ histreq = <<>>
    /\ nhistreq = 0
    /\ nreconnect = 0
    /\ nreqdata = 0
    /\ sent = Len(backfill_from)
    /\ subscribed = FALSE
    /\ BrokerInit

\* start(): connected says whether ib.connected(), found whether
\* getContractDetails returned contract details
Start(connected, found) ==
    /\ pc = "new"
    /\ pc' = "idle"
    /\ usertvol' = UseRTVolume(p)
    /\ st' = IF p.seeded THEN ST_FROM ELSE ST_START
    /\ statelivereconn' = FALSE
    /\ storedmsg' = <<>>
    /\ contract' = (connected /\ found)
    /\ notifs' = IF ~connected THEN notifs
                 ELSE IF found THEN PutNotification(notifs, "CONNECTED", 0)
                 ELSE PutNotification(PutNotification(notifs, "CONNECTED", 0),
                                      "DISCONNECTED", 0)
    /\ laststatus' = IF ~connected THEN laststatus
                     ELSE IF found THEN "CONNECTED" ELSE "DISCONNECTED"
    /\ ops' = <<"start">>
    /\ UNCHANGED <<p, backfill_from, lastret, qlive, qhist, histopen, lines, origin,
                   histreq, nhistreq, nreconnect, nreqdata, sent, subscribed, bvars>>

\* the driver pulls the feed once per tick and never after a failure return
DriverCallsLoad == pc = "idle"

\* _load is entered: nothing can be done without a contract
LoadEnter ==
    /\ DriverCallsLoad
    /\ IF ~contract
       THEN /\ pc' = "done"
            /\ lastret' = "False"
            /\ ops' = <<"nocontract">>
       ELSE /\ pc' = "load"
            /\ lastret' = "-"
            /\ ops' = <<"enter">>
    /\ UNCHANGED <<p, backfill_from, st, statelivereconn, storedmsg, usertvol,
                   contract, qlive, qhist, histopen, lines, origin, notifs, laststatus,
                   histreq, nhistreq, nreconnect, nreqdata, sent, subscribed, bvars>>

-----------------------------------------------------------------------------
(* _load, state _ST_LIVE *)

InLive == pc = "load" /\ st = ST_LIVE

\* queue.Empty: return None
LiveTimeout ==
    /\ InLive
    /\ ~LiveMsgReady
    /\ pc' = "idle"
    /\ lastret' = TimeoutResult
    /\ ops' = Append(ops, "live:timeout")
    /\ storedmsg' = <<>>
    /\ UNCHANGED <<p, backfill_from, st, statelivereconn, usertvol, contract,
                   qlive, qhist, histopen, lines, origin, notifs, laststatus, histreq,
                   nhistreq, nreconnect, nreqdata, sent, subscribed, bvars>>

\* msg is None: CONNBROKEN, then ib.reconnect(resub=True) succeeds or not
LiveNull(reconnected) ==
    /\ InLive
    /\ LiveMsgReady
    /\ IsNone(LiveMsg)
    /\ storedmsg' = <<>>
    /\ qlive' = QLiveAfterGet
    /\ nreconnect' = nreconnect + 1
    /\ IF ~reconnected
       THEN /\ notifs' = NullFailedNotifs(notifs)
            /\ laststatus' = notifs'[Len(notifs')][1]
            /\ pc' = "done"
            /\ lastret' = "False"
            /\ ops' = Append(ops, "live:null:failed")
            /\ UNCHANGED statelivereconn
       ELSE /\ notifs' = PutNotification(notifs, "CONNBROKEN", 0)
            /\ laststatus' = "CONNBROKEN"
            /\ statelivereconn' = p.backfill
            /\ ops' = Append(ops, "live:null:reconnected")
            /\ UNCHANGED <<pc, lastret>>
    /\ subscribed' = reconnected
    /\ UNCHANGED <<p, backfill_from, st, usertvol, contract, qhist, histopen,
                   lines, origin, histreq, nhistreq, nreqdata, sent, bvars>>

\* the live state without its "not subscribed" test
LiveTerminalCodesNone == {}

\* which integers are "not subscribed" in the live state
LiveTerminalCodes == {NOTSUBSCRIBED_CODE}

\* msg == -354: NOTSUBSCRIBED, return False
LiveNotSubscribed ==
    /\ InLive
    /\ LiveMsgReady
    /\ IsInteger(LiveMsg)
    /\ LiveMsg.value \in LiveTerminalCodes
    /\ storedmsg' = <<>>
    /\ qlive' = QLiveAfterGet
    /\ notifs' = PutNotification(notifs, "NOTSUBSCRIBED", 0)
    /\ laststatus' = "NOTSUBSCRIBED"
    /\ pc' = "done"
    /\ lastret' = "False"
    /\ ops' = Append(ops, "live:notsubscribed")
    /\ UNCHANGED <<p, backfill_from, st, statelivereconn, usertvol, contract,
                   qhist, histopen, lines, origin, histreq, nhistreq, nreconnect,
                   nreqdata, sent, subscribed, bvars>>

\* -1100 skipped without marking the backfill
LiveConnBrokenNoMark ==
    /\ InLive
    /\ LiveMsgReady
    /\ IsInteger(LiveMsg)
    /\ LiveMsg.value \notin LiveTerminalCodes
    /\ LiveMsg.value = CONNBROKEN_CODE
    /\ storedmsg' = <<>>
    /\ qlive' = QLiveAfterGet
    /\ ops' = Append(ops, "live:1100")
    /\ UNCHANGED <<p, backfill_from, pc, lastret, st, statelivereconn, usertvol, contract,
                   qhist, histopen, lines, origin, notifs, laststatus, histreq, nhistreq,
                   nreconnect, nreqdata, sent, subscribed, bvars>>

\* msg == -1100: conn broken, wait for a message to do a backfill
LiveConnBroken ==
    /\ InLive
    /\ LiveMsgReady
    /\ IsInteger(LiveMsg)
    /\ LiveMsg.value \notin LiveTerminalCodes
    /\ LiveMsg.value = CONNBROKEN_CODE
    /\ storedmsg' = <<>>
    /\ qlive' = QLiveAfterGet
    /\ statelivereconn' = p.backfill
    /\ ops' = Append(ops, "live:1100")
    /\ UNCHANGED <<p, backfill_from, pc, lastret, st, usertvol, contract, qhist,
                   histopen, lines, origin, notifs, laststatus, histreq, nhistreq,
                   nreconnect, nreqdata, sent, subscribed, bvars>>

\* msg == -1102: conn broken/restored, tickerId maintained
LiveConnRestored ==
    /\ InLive
    /\ LiveMsgReady
    /\ IsInteger(LiveMsg)
    /\ LiveMsg.value \notin LiveTerminalCodes
    /\ LiveMsg.value = CONNRESTORED_KEPT_CODE
    /\ storedmsg' = <<>>
    /\ qlive' = QLiveAfterGet
    /\ statelivereconn' = IF ~statelivereconn THEN p.backfill ELSE statelivereconn
    /\ ops' = Append(ops, "live:1102")
    /\ UNCHANGED <<p, backfill_from, pc, lastret, st, usertvol, contract, qhist,
                   histopen, lines, origin, notifs, laststatus, histreq, nhistreq,
                   nreconnect, nreqdata, sent, subscribed, bvars>>

\* msg == -1101: conn broken/restored, tickerId gone: reqdata() resubscribes
\* (self.qlive becomes the queue of the new subscription)
LiveConnRestoredResub ==
    /\ InLive
    /\ LiveMsgReady
    /\ IsInteger(LiveMsg)
    /\ LiveMsg.value \notin LiveTerminalCodes
    /\ LiveMsg.value = CONNRESTORED_LOST_CODE
    /\ storedmsg' = <<>>
    /\ IF ~statelivereconn
       THEN /\ statelivereconn' = p.backfill
            /\ nreqdata' = nreqdata + 1
            /\ qlive' = <<>>
            /\ subscribed' = TRUE
       ELSE /\ qlive' = QLiveAfterGet
            /\ UNCHANGED <<statelivereconn, nreqdata, subscribed>>
    /\ ops' = Append(ops, "live:1101")
    /\ UNCHANGED <<p, backfill_from, pc, lastret, st, usertvol, contract, qhist,
                   histopen, lines, origin, notifs, laststatus, histreq, nhistreq,
                   nreconnect, sent, bvars>>

\* any other integer: UNKNOWN notification, skip it
LiveUnknown ==
    /\ InLive
    /\ LiveMsgReady
    /\ IsInteger(LiveMsg)
    /\ LiveMsg.value \notin LiveTerminalCodes
    /\ LiveMsg.value \notin {CONNBROKEN_CODE, CONNRESTORED_KEPT_CODE,
                             CONNRESTORED_LOST_CODE}
    /\ storedmsg' = <<>>
    /\ qlive' = QLiveAfterGet
    /\ notifs' = PutNotification(notifs, "UNKNOWN", LiveMsg.value)
    /\ laststatus' = "UNKNOWN"
    /\ ops' = Append(ops, "live:unknown")
    /\ UNCHANGED <<p, backfill_from, pc, lastret, st, statelivereconn, usertvol,
                   contract, qhist, histopen, lines, origin, histreq, nhistreq,
                   nreconnect, nreqdata, sent, subscribed, bvars>>

\* a data message and no reconnection pending: LIVE status, bar assembler
LiveData ==
    /\ InLive
    /\ LiveMsgReady
    /\ ~IsNone(LiveMsg)
    /\ ~IsInteger(LiveMsg)
    /\ ~statelivereconn
    /\ storedmsg' = <<>>
    /\ qlive' = QLiveAfterGet
    /\ IF DataPutsLive(QLiveAfterGet)
       THEN /\ notifs' = PutNotification(notifs, "LIVE", 0)
            /\ laststatus' = "LIVE"
       ELSE UNCHANGED <<notifs, laststatus>>
    /\ LET r == IF usertvol THEN LoadRTVolume(LiveMsg) ELSE LoadRTBar(LiveMsg, FALSE)
       IN  IF r.ret
           THEN /\ lines' = r.lines
                /\ origin' = Append(origin, "live")
                /\ pc' = "idle"
                /\ lastret' = "True"
                /\ ops' = Append(ops, "live:bar")
           ELSE /\ ops' = Append(ops, "live:late")
                /\ UNCHANGED <<lines, origin, pc, lastret>>
    /\ UNCHANGED <<p, backfill_from, st, statelivereconn, usertvol, contract,
                   qhist, histopen, histreq, nhistreq, nreconnect, nreqdata, sent, subscribed, bvars>>

\* a data message with a reconnection pending: keep it, request the backfill
LiveBackfill ==
    /\ InLive
    /\ LiveMsgReady
    /\ ~IsNone(LiveMsg)
    /\ ~IsInteger(LiveMsg)
    /\ statelivereconn
    /\ storedmsg' = KeepMsg(LiveMsg)
    /\ qlive' = QLiveAfterGet
    /\ IF BackfillPutsDelayed
       THEN /\ notifs' = PutNotification(notifs, "DELAYED", 0)
            /\ laststatus' = "DELAYED"
       ELSE UNCHANGED <<notifs, laststatus>>
    /\ histreq' = <<[dtend |-> BackfillEnd(LiveMsg), dtbegin |-> BackfillBegin]>>
    /\ nhistreq' = nhistreq + 1
    /\ qhist' = <<>>
    /\ histopen' = TRUE
    /\ st' = ST_HISTORBACK
    /\ statelivereconn' = FALSE
    /\ ops' = Append(ops, "live:backfill")
    /\ UNCHANGED <<p, backfill_from, pc, lastret, usertvol, contract, lines, origin,
                   nreconnect, nreqdata, sent, subscribed, bvars>>

-----------------------------------------------------------------------------
(* _load, state _ST_HISTORBACK: msg = self.qhist.get() blocks *)

InHist == pc = "load" /\ st = ST_HISTORBACK /\ qhist # <<>>

\* every integer taken for a rejection in the historical state
HistTerminalCodesAll == {NOTSUBSCRIBED_CODE, NOPERMISSION_CODE, OTHER_CODE}

\* which integers are "not subscribed" / "no permission" in the historical state
HistTerminalCodes == {NOTSUBSCRIBED_CODE, NOPERMISSION_CODE}

\* a None in the historical state answered by repeating the request
HistNullRetries ==
    /\ InHist
    /\ IsNone(Head(qhist))
    /\ qhist' = <<>>
    /\ histopen' = TRUE
    /\ nhistreq' = nhistreq + 1
    /\ ops' = Append(ops, "hist:null")
    /\ UNCHANGED <<p, backfill_from, pc, lastret, st, statelivereconn, storedmsg,
                   usertvol, contract, qlive, lines, origin, notifs, laststatus, histreq,
                   nreconnect, nreqdata, sent, subscribed, bvars>>

\* msg is None: conn broken during historical/backfilling, bail out
HistNull ==
    /\ InHist
    /\ IsNone(Head(qhist))
    /\ qhist' = Tail(qhist)
    /\ notifs' = PutNotification(notifs, "DISCONNECTED", 0)
    /\ laststatus' = "DISCONNECTED"
    /\ pc' = "done"
    /\ lastret' = "False"
    /\ ops' = Append(ops, "hist:null")
    /\ UNCHANGED <<p, backfill_from, st, statelivereconn, storedmsg, usertvol,
                   contract, qlive, histopen, lines, origin, histreq, nhistreq,
                   nreconnect, nreqdata, sent, subscribed, bvars>>

\* msg == -354 or msg == -420: NOTSUBSCRIBED, return False
HistNotSubscribed ==
    /\ InHist
    /\ IsInteger(Head(qhist))
    /\ Head(qhist).value \in HistTerminalCodes
    /\ qhist' = Tail(qhist)
    /\ notifs' = PutNotification(notifs, "NOTSUBSCRIBED", 0)
    /\ laststatus' = "NOTSUBSCRIBED"
    /\ pc' = "done"
    /\ lastret' = "False"
    /\ ops' = Append(ops, "hist:notsubscribed")
    /\ UNCHANGED <<p, backfill_from, st, statelivereconn, storedmsg, usertvol,
                   contract, qlive, histopen, lines, origin, histreq, nhistreq,
                   nreconnect, nreqdata, sent, subscribed, bvars>>

\* any other integer: UNKNOWN notification, skip it
HistUnknown ==
    /\ InHist
    /\ IsInteger(Head(qhist))
    /\ Head(qhist).value \notin HistTerminalCodes
    /\ qhist' = Tail(qhist)
    /\ notifs' = PutNotification(notifs, "UNKNOWN", Head(qhist).value)
    /\ laststatus' = "UNKNOWN"
    /\ ops' = Append(ops, "hist:unknown")
    /\ UNCHANGED <<p, backfill_from, pc, lastret, st, statelivereconn, storedmsg,
                   usertvol, contract, qlive, histopen, lines, origin, histreq, nhistreq,
                   nreconnect, nreqdata, sent, subscribed, bvars>>

\* msg.date is not None: bar assembler with hist=True
HistBar ==
    /\ InHist
    /\ ~IsNone(Head(qhist))
    /\ ~IsInteger(Head(qhist))
    /\ Head(qhist).date # NoneDate
    /\ qhist' = Tail(qhist)
    /\ LET r == LoadRTBar(Head(qhist), TRUE)
       IN  IF r.ret
           THEN /\ lines' = r.lines
                /\ origin' = Append(origin, "hist")
                /\ pc' = "idle"
                /\ lastret' = "True"
                /\ ops' = Append(ops, "hist:bar")
           ELSE /\ ops' = Append(ops, "hist:late")
                /\ UNCHANGED <<lines, origin, pc, lastret>>
    /\ UNCHANGED <<p, backfill_from, st, statelivereconn, storedmsg, usertvol,
                   contract, qlive, histopen, notifs, laststatus, histreq,
                   nhistreq, nreconnect, nreqdata, sent, subscribed, bvars>>

\* the end of histdata read without leaving the historical state
HistEndStays ==
    /\ InHist
    /\ ~IsNone(Head(qhist))
    /\ ~IsInteger(Head(qhist))
    /\ Head(qhist).date = NoneDate
    /\ qhist' = Tail(qhist)
    /\ IF p.historical
       THEN /\ notifs' = PutNotification(notifs, "DISCONNECTED", 0)
            /\ laststatus' = "DISCONNECTED"
            /\ pc' = "done"
            /\ lastret' = "False"
            /\ ops' = Append(ops, "hist:end:historical")
       ELSE /\ ops' = Append(ops, "hist:end:live")
            /\ UNCHANGED <<notifs, laststatus, pc, lastret>>
    /\ UNCHANGED <<p, backfill_from, st, statelivereconn, storedmsg, usertvol,
                   contract, qlive, histopen, lines, origin, histreq, nhistreq,
                   nreconnect, nreqdata, sent, subscribed, bvars>>

\* end of histdata: DISCONNECTED and False if only historical, else go live
HistEnd ==
    /\ InHist
    /\ ~IsNone(Head(qhist))
    /\ ~IsInteger(Head(qhist))
    /\ Head(qhist).date = NoneDate
    /\ qhist' = Tail(qhist)
    /\ IF p.historical
       THEN /\ notifs' = PutNotification(notifs, "DISCONNECTED", 0)
            /\ laststatus' = "DISCONNECTED"
            /\ pc' = "done"
            /\ lastret' = "False"
            /\ ops' = Append(ops, "hist:end:historical")
            /\ UNCHANGED st
       ELSE /\ st' = ST_LIVE
            /\ ops' = Append(ops, "hist:end:live")
            /\ UNCHANGED <<notifs, laststatus, pc, lastret>>
    /\ UNCHANGED <<p, backfill_from, statelivereconn, storedmsg, usertvol,
                   contract, qlive, histopen, lines, origin, histreq, nhistreq,
                   nreconnect, nreqdata, sent, subscribed, bvars>>

-----------------------------------------------------------------------------
(* _load, state _ST_START *)

\* p.historical: DELAYED, one bounded historical request
StartHistorical ==
    /\ pc = "load"
    /\ st = ST_START
    /\ p.historical
    /\ notifs' = PutNotification(notifs, "DELAYED", 0)
    /\ laststatus' = "DELAYED"
    /\ histreq' = <<[dtend |-> HistoricalEnd, dtbegin |-> HistoricalBegin]>>
    /\ nhistreq' = nhistreq + 1
    /\ qhist' = <<>>
    /\ histopen' = TRUE
    /\ st' = ST_HISTORBACK
    /\ ops' = Append(ops, "start:historical")
    /\ UNCHANGED <<p, backfill_from, pc, lastret, statelivereconn, storedmsg,
                   usertvol, contract, qlive, lines, origin, nreconnect, nreqdata, sent, subscribed, bvars>>

\* live is requested: ib.reconnect(resub=True) succeeds or not
StartLive(reconnected) ==
    /\ pc = "load"
    /\ st = ST_START
    /\ ~p.historical
    /\ nreconnect' = nreconnect + 1
    /\ IF ~reconnected
       THEN /\ notifs' = PutNotification(notifs, "DISCONNECTED", 0)
            /\ laststatus' = "DISCONNECTED"
            /\ pc' = "done"
            /\ lastret' = "False"
            /\ ops' = Append(ops, "start:live:failed")
            /\ UNCHANGED <<st, statelivereconn>>
       ELSE /\ statelivereconn' = p.backfill_start
            /\ IF ~p.backfill_start
               THEN /\ notifs' = PutNotification(notifs, "DELAYED", 0)
                    /\ laststatus' = "DELAYED"
               ELSE UNCHANGED <<notifs, laststatus>>
            /\ st' = ST_LIVE
            /\ ops' = Append(ops, "start:live")
            /\ UNCHANGED <<pc, lastret>>
    /\ subscribed' = (subscribed \/ reconnected)
    /\ UNCHANGED <<p, backfill_from, storedmsg, usertvol, contract, qlive, qhist,
                   histopen, lines, origin, histreq, nhistreq, nreqdata, sent, bvars>>

-----------------------------------------------------------------------------
(* _load, state _ST_FROM *)

\* the seed bar copied without its open interest
FromNextNoOpenInterest ==
    /\ pc = "load"
    /\ st = ST_FROM
    /\ backfill_from # <<>>
    /\ lines' = Append(lines, [Head(backfill_from) EXCEPT !.openinterest = 0])
    /\ origin' = Append(origin, "seed")
    /\ backfill_from' = Tail(backfill_from)
    /\ pc' = "idle"
    /\ lastret' = "True"
    /\ ops' = Append(ops, "from:bar")
    /\ UNCHANGED <<p, st, statelivereconn, storedmsg, usertvol, contract, qlive,
                   qhist, histopen, notifs, laststatus, histreq, nhistreq,
                   nreconnect, nreqdata, sent, subscribed, bvars>>

\* backfill_from.next() delivered a bar: copy the lines of the same name
FromNext ==
    /\ pc = "load"
    /\ st = ST_FROM
    /\ backfill_from # <<>>
    /\ lines' = Append(lines, Head(backfill_from))
    /\ origin' = Append(origin, "seed")
    /\ backfill_from' = Tail(backfill_from)
    /\ pc' = "idle"
    /\ lastret' = "True"
    /\ ops' = Append(ops, "from:bar")
    /\ UNCHANGED <<p, st, statelivereconn, storedmsg, usertvol, contract, qlive,
                   qhist, histopen, notifs, laststatus, histreq, nhistreq,
                   nreconnect, nreqdata, sent, subscribed, bvars>>

\* the consumed seed source leading straight to the live state
FromConsumedToLive ==
    /\ pc = "load"
    /\ st = ST_FROM
    /\ backfill_from = <<>>
    /\ st' = ST_LIVE
    /\ ops' = Append(ops, "from:consumed")
    /\ UNCHANGED <<p, backfill_from, pc, lastret, statelivereconn, storedmsg,
                   usertvol, contract, qlive, qhist, histopen, lines, origin, notifs,
                   laststatus, histreq, nhistreq, nreconnect, nreqdata, sent, subscribed, bvars>>

\* the additional data source is consumed
FromConsumed ==
    /\ pc = "load"
    /\ st = ST_FROM
    /\ backfill_from = <<>>
    /\ st' = ST_START
    /\ ops' = Append(ops, "from:consumed")
    /\ UNCHANGED <<p, backfill_from, pc, lastret, statelivereconn, storedmsg,
                   usertvol, contract, qlive, qhist, histopen, lines, origin, notifs,
                   laststatus, histreq, nhistreq, nreconnect, nreqdata, sent, subscribed, bvars>>

-----------------------------------------------------------------------------
(* The gateway (the store's thread) *)

LiveDataMsgs == {IF usertvol THEN RTVolumeMsg(t) ELSE RTBarMsg(t) : t \in Times}
LiveMsgs == LiveDataMsgs \cup {NullMsg} \cup {IntMsg(c) : c \in LiveCodes}
HistMsgs == {HistMsg(t) : t \in Times} \cup {EndOfHist, NullMsg}
                \cup {IntMsg(c) : c \in HistCodes}

\* a message arrives on the live queue of a feed that asked for live data
GatewayPutLive(m) ==
    /\ pc = "load"
    /\ st \in {ST_LIVE, ST_HISTORBACK}
    /\ ~p.historical
    /\ sent < MaxMsgs
    /\ Len(qlive) < MaxQueue
    /\ qlive' = Append(qlive, m)
    /\ sent' = sent + 1
    /\ UNCHANGED <<p, backfill_from, pc, lastret, ops, st, statelivereconn,
                   storedmsg, usertvol, contract, qhist, histopen, lines, origin, notifs,
                   laststatus, histreq, nhistreq, nreconnect, nreqdata, subscribed, bvars>>

\* a message of the requested historical stream arrives; the end of the
\* stream, a cancelled queue (None) and a rejection end the stream
GatewayPutHist(m) ==
    /\ pc = "load"
    /\ st = ST_HISTORBACK
    /\ histopen
    /\ sent < MaxMsgs
    /\ Len(qhist) < MaxQueue
    /\ qhist' = Append(qhist, m)
    /\ histopen' = ~(m = EndOfHist \/ m = NullMsg
                     \/ m \in {IntMsg(c) : c \in HistTerminalCodes})
    /\ sent' = sent + 1
    /\ UNCHANGED <<p, backfill_from, pc, lastret, ops, st, statelivereconn,
                   storedmsg, usertvol, contract, qlive, lines, origin, notifs,
                   laststatus, histreq, nhistreq, nreconnect, nreqdata, subscribed, bvars>>

-----------------------------------------------------------------------------
(* stop() *)

\* ib.stop(): the store disconnects from the gateway, which ends the live
\* subscription and abandons the historical request of the feed
IbStop == subscribed' = FALSE /\ histopen' = FALSE

\* the driver stops a started feed between two pulls
DriverCallsStop == pc \in {"idle", "done"}

\* a stop() that does not tell the store
StopWithoutStore ==
    /\ DriverCallsStop
    /\ pc' = "stopped"
    /\ ops' = <<"stop">>
    /\ UNCHANGED <<p, backfill_from, lastret, st, statelivereconn, storedmsg, usertvol,
                   contract, qlive, qhist, histopen, lines, origin, notifs, laststatus,
                   histreq, nhistreq, nreconnect, nreqdata, sent, subscribed, bvars>>

\* stop(): stops the feed and tells the store to stop
Stop ==
    /\ DriverCallsStop
    /\ pc' = "stopped"
    /\ IbStop
    /\ ops' = <<"stop">>
    /\ UNCHANGED <<p, backfill_from, lastret, st, statelivereconn, storedmsg, usertvol,
                   contract, qlive, qhist, lines, origin, notifs, laststatus,
                   histreq, nhistreq, nreconnect, nreqdata, sent, bvars>>

-----------------------------------------------------------------------------
Next ==
    \/ \E connected \in BOOLEAN, found \in BOOLEAN : Start(connected, found)
    \/ LoadEnter
    \/ LiveTimeout
    \/ \E reconnected \in BOOLEAN : LiveNull(reconnected)
    \/ LiveNotSubscribed
    \/ LiveConnBroken
    \/ LiveConnRestored
    \/ LiveConnRestoredResub
    \/ LiveUnknown
    \/ LiveData
    \/ LiveBackfill
    \/ HistNull
    \/ HistNotSubscribed
    \/ HistUnknown
    \/ HistBar
    \/ HistEnd
    \/ StartHistorical
    \/ \E reconnected \in BOOLEAN : StartLive(reconnected)
    \/ FromNext
    \/ FromConsumed
    \/ \E m \in LiveMsgs : GatewayPutLive(m)
    \/ \E m \in HistMsgs : GatewayPutHist(m)
    \/ Stop

Spec == Init /\ [][Next]_vars

-----------------------------------------------------------------------------
(* The feed that keeps being pulled, with a gateway that ends every *)
(* historical stream *)

\* the messages that end a historical stream: the end of the data, a
\* cancelled queue, a rejection
HistEnders == {EndOfHist, NullMsg} \cup {IntMsg(c) : c \in HistTerminalCodes}

\* the gateway ends the historical stream, whatever it has sent so far
GatewayEndsHist(m) ==
    /\ pc = "load"
    /\ st = ST_HISTORBACK
    /\ histopen
    /\ Len(qhist) < MaxQueue
    /\ qhist' = Append(qhist, m)
    /\ histopen' = FALSE
    /\ sent' = sent + 1
    /\ UNCHANGED <<p, backfill_from, pc, lastret, ops, st, statelivereconn,
                   storedmsg, usertvol, contract, qlive, lines, origin, notifs,
                   laststatus, histreq, nhistreq, nreconnect, nreqdata, subscribed, bvars>>

\* one iteration of the loop of _load in the historical state
HistStep == HistNull \/ HistNotSubscribed \/ HistUnknown \/ HistBar \/ HistEnd

NextPulled ==
    \/ \E connected \in BOOLEAN, found \in BOOLEAN : Start(connected, found)
    \/ LoadEnter
    \/ LiveTimeout
    \/ \E reconnected \in BOOLEAN : LiveNull(reconnected)
    \/ LiveNotSubscribed
    \/ LiveConnBroken
    \/ LiveConnRestored
    \/ LiveConnRestoredResub
    \/ LiveUnknown
    \/ LiveData
    \/ LiveBackfill
    \/ HistStep
    \/ StartHistorical
    \/ \E reconnected \in BOOLEAN : StartLive(reconnected)
    \/ FromNext
    \/ FromConsumed
    \/ \E m \in LiveMsgs : GatewayPutLive(m)
    \/ \E m \in HistMsgs : GatewayPutHist(m)
    \/ \E m \in HistEnders : GatewayEndsHist(m)

\* the driver keeps pulling, the loop of _load runs, the gateway ends the stream
SpecPulled ==
    /\ Init
    /\ [][NextPulled]_vars
    /\ WF_vars(LoadEnter)
    /\ WF_vars(HistStep)
    /\ WF_vars(\E m \in HistEnders : GatewayEndsHist(m))

-----------------------------------------------------------------------------
(* start() alone, over every asset type and timeframe/compression *)

\* TimeFrame values around Seconds, compressions around 5
Timeframes == {Seconds - 1, Seconds, Seconds + 1}
SelCompressions == {1, 5, 10}

ParamsSel ==
    [rtbar : BOOLEAN, historical : BOOLEAN, backfill_start : {TRUE},
     backfill : {TRUE}, latethrough : {FALSE}, seeded : {FALSE},
     fromdate : {NegInf}, todate : {PosInf},
     timeframe : Timeframes, compression : SelCompressions, cashtype : BOOLEAN]

InitSel ==
    /\ p \in ParamsSel
    /\ backfill_from = <<>>
    /\ pc = "new"
    /\ lastret = "-"
    /\ ops = <<>>
    /\ st = ST_START
    /\ statelivereconn = FALSE
    /\ storedmsg = <<>>
    /\ usertvol = FALSE
    /\ contract = FALSE
    /\ qlive = <<>>
    /\ qhist = <<>>
    /\ histopen = FALSE
    /\ lines = <<>>
    /\ origin = <<>>
    /\ notifs = <<>>
    /\ laststatus = "-"
    /\ histreq = <<>>
    /\ nhistreq = 0
    /\ nreconnect = 0
    /\ nreqdata = 0
    /\ sent = 0
    /\ subscribed = FALSE
    /\ BrokerInit

NextSel == \E connected \in BOOLEAN, found \in BOOLEAN : Start(connected, found)

SpecSel == InitSel /\ [][NextSel]_vars

-----------------------------------------------------------------------------
(* CCXTMultiBroker: operations *)

\* the feed variables, which the broker never touches
fvars == <<p, backfill_from, pc, lastret, ops, st, statelivereconn, storedmsg,
           usertvol, contract, qlive, qhist, histopen, lines, origin, notifs,
           laststatus, histreq, nhistreq, nreconnect, nreqdata, sent, subscribed>>

\* the exchange is registered, or no exchange is named
Known(exchange) == exchange = None \/ Lower(exchange) \in DOMAIN brokers

\* the accounts with the cash / value the stores report
WithCash(accounts, amount) ==
    [e \in DOMAIN accounts |-> [accounts[e] EXCEPT !.cash = amount[e]]]
WithValue(accounts, amount) ==
    [e \in DOMAIN accounts |-> [accounts[e] EXCEPT !.value = amount[e]]]

\* add_exchange(exchange, config, currency, rate)
AddExchange(exchange, rate) ==
    /\ brokers' = [e \in DOMAIN brokers \cup {Lower(exchange)} |->
                      IF e = Lower(exchange) THEN BrokerAccount(rate) ELSE brokers[e]]
    /\ UNCHANGED <<total_cash, total_value, bret, fvars>>

\* get_cash(exchange, cached = True)
GetCashCached(exchange) ==
    /\ Known(exchange)
    /\ bret' = [op |-> "get_cash", exchange |-> exchange, cached |-> TRUE,
                result |-> getcash(exchange)]
    /\ UNCHANGED <<brokers, total_cash, total_value, fvars>>

\* get_cash(exchange, cached = False): the store of the exchange reports amount
GetCashExchange(exchange, amount) ==
    /\ exchange # None
    /\ Known(exchange)
    /\ brokers' = [brokers EXCEPT ![Lower(exchange)].cash = amount]
    /\ bret' = [op |-> "get_cash", exchange |-> exchange, cached |-> FALSE,
                result |-> amount]
    /\ UNCHANGED <<total_cash, total_value, fvars>>

\* get_cash(cached = False): every store reports, the total is aggregated
GetCashTotal(amount) ==
    /\ brokers' = WithCash(brokers, amount)
    /\ total_cash' = Aggregate(amount, brokers)
    /\ bret' = [op |-> "get_cash", exchange |-> None, cached |-> FALSE,
                result |-> total_cash']
    /\ UNCHANGED <<total_value, fvars>>

\* get_value(datas, exchange, cached = True): return self.getvalue(exchange)
GetValueCached(exchange) ==
    /\ Known(exchange)
    /\ bret' = [op |-> "get_value", exchange |-> exchange, cached |-> TRUE,
                result |-> getvalue(exchange, None)]
    /\ UNCHANGED <<brokers, total_cash, total_value, fvars>>

\* get_value(exchange = exchange, cached = False)
GetValueExchange(exchange, amount) ==
    /\ exchange # None
    /\ Known(exchange)
    /\ brokers' = [brokers EXCEPT ![Lower(exchange)].value = amount]
    /\ bret' = [op |-> "get_value", exchange |-> exchange, cached |-> FALSE,
                result |-> amount]
    /\ UNCHANGED <<total_cash, total_value, fvars>>

\* get_value(cached = False)
GetValueTotal(amount) ==
    /\ brokers' = WithValue(brokers, amount)
    /\ total_value' = Aggregate(amount, brokers)
    /\ bret' = [op |-> "get_value", exchange |-> None, cached |-> FALSE,
                result |-> total_value']
    /\ UNCHANGED <<total_cash, fvars>>

\* next(): get_cash(cached = False), then get_value(cached = False)
BrokerNext(cash, value) ==
    /\ brokers' = WithValue(WithCash(brokers, cash), value)
    /\ total_cash' = Aggregate(cash, brokers)
    /\ total_value' = Aggregate(value, brokers)
    /\ UNCHANGED <<bret, fvars>>

\* a broker on its own: no feed is started
InitBroker ==
    /\ p = [rtbar |-> FALSE, historical |-> FALSE, backfill_start |-> TRUE,
            backfill |-> TRUE, latethrough |-> FALSE, seeded |-> FALSE,
            fromdate |-> NegInf, todate |-> PosInf, timeframe |-> Seconds,
            compression |-> 1, cashtype |-> FALSE]
    /\ backfill_from = <<>>
    /\ pc = "new"
    /\ lastret = "-"
    /\ ops = <<>>
    /\ st = ST_START
    /\ statelivereconn = FALSE
    /\ storedmsg = <<>>
    /\ usertvol = FALSE
    /\ contract = FALSE
    /\ qlive = <<>>
    /\ qhist = <<>>
    /\ histopen = FALSE
    /\ lines = <<>>
    /\ origin = <<>>
    /\ notifs = <<>>
    /\ laststatus = "-"
    /\ histreq = <<>>
    /\ nhistreq = 0
    /\ nreconnect = 0
    /\ nreqdata = 0
    /\ sent = 0
    /\ subscribed = FALSE
    /\ BrokerInit

NextBroker ==
    \/ \E exchange \in ExchangeNames, rate \in Rates : AddExchange(exchange, rate)
    \/ \E exchange \in ExchangeNames \cup {None} : GetCashCached(exchange)
    \/ \E exchange \in ExchangeNames, amount \in Amounts : GetCashExchange(exchange, amount)
    \/ \E amount \in [DOMAIN brokers -> Amounts] : GetCashTotal(amount)
    \/ \E exchange \in ExchangeNames \cup {None} : GetValueCached(exchange)
    \/ \E exchange \in ExchangeNames, amount \in Amounts : GetValueExchange(exchange, amount)
    \/ \E amount \in [DOMAIN brokers -> Amounts] : GetValueTotal(amount)
    \/ \E cash \in [DOMAIN brokers -> Amounts], value \in [DOMAIN brokers -> Amounts] :
            BrokerNext(cash, value)

SpecBroker == InitBroker /\ [][NextBroker]_vars

-----------------------------------------------------------------------------
(* Properties *)

\* the timestamp of the candidate the assembler is given by a live / historical step
LiveCandidate == date2num(IF usertvol THEN LiveMsg.datetime ELSE LiveMsg.time)
HistCandidate == date2num(Head(qhist).date)

\* the candidate is later than the bar delivered before it, or nothing forbids it
Admissible(dt) ==
    \/ p.latethrough
    \/ lines = <<>>
    \/ dt > lines[Len(lines)].datetime

\* the step delivers one bar stamped dt and returns True, or delivers nothing
\* and stays in the loop
Delivers(dt) ==
    /\ Len(lines') = Len(lines) + 1
    /\ SubSeq(lines', 1, Len(lines)) = lines
    /\ lines'[Len(lines')].datetime = dt
    /\ pc' = "idle"
    /\ lastret' = "True"
Skips == lines' = lines /\ pc' = "load"

\* C1: the bar assembler (_load_rtbar / _load_rtvolume) accepts a candidate
\* exactly when late-through is on, or no bar was delivered before, or the
\* candidate's timestamp is strictly greater than the timestamp of the bar
\* delivered before it; an accepted candidate is delivered with its own
\* timestamp and a rejected one leaves the series as it is.  With late-through
\* off an accepted bar is therefore strictly later than its predecessor, and
\* with late-through on nothing is rejected.
C1_AssemblerRule ==
    [][/\ LiveData => IF Admissible(LiveCandidate) THEN Delivers(LiveCandidate) ELSE Skips
       /\ HistBar => IF Admissible(HistCandidate) THEN Delivers(HistCandidate) ELSE Skips]_vars

\* a feed with late-through off has delivered an assembled bar after another
\* bar and has then rejected a candidate
C1_Witness ==
    /\ ~p.latethrough
    /\ LastOp \in {"live:late", "hist:late"}
    /\ \E i \in 2..Len(lines) : origin[i] # "seed"

\* C2 as claimed: with late-through off every bar of the output series,
\* whichever state delivered it, is strictly later than the bar before it
C2_EveryBarIncreasing ==
    ~p.latethrough =>
        \A i \in 2..Len(lines) : lines[i].datetime > lines[i - 1].datetime

\* C2 as amended: with late-through off every bar delivered by the historical
\* or the live state is strictly later than the bar delivered before it,
\* whichever state delivered that one (the seed bars come first and are copied
\* as the seed source gives them)
C2_AssembledBarsIncreasing ==
    /\ \A i \in 2..Len(lines) : origin[i] = "seed" => origin[i - 1] = "seed"
    /\ ~p.latethrough =>
        \A i \in 2..Len(lines) :
            origin[i] \in {"hist", "live"} => lines[i].datetime > lines[i - 1].datetime

\* a seed bar was followed by a bar of the backfill that a live message
\* triggered, the live message waiting in the deferred slot
C2_Witness ==
    /\ ~p.latethrough
    /\ storedmsg # <<>>
    /\ \E i \in 2..Len(lines) : origin[i - 1] = "seed" /\ origin[i] = "hist"

\* a step of the feed (the gateway's steps are the ones that count an input)
FeedStep == sent' = sent

Count(ns, status) == Cardinality({i \in DOMAIN ns : ns[i][1] = status})

\* the feed reads a None / the integer c from the live queue in the live state
LiveReadsNone == FeedStep /\ InLive /\ LiveMsgReady /\ IsNone(LiveMsg)
LiveReadsCode(c) ==
    FeedStep /\ InLive /\ LiveMsgReady /\ IsInteger(LiveMsg) /\ LiveMsg.value = c
HistReadsCode(c) ==
    FeedStep /\ InHist /\ IsInteger(Head(qhist)) /\ Head(qhist).value = c

\* after a failure return nothing happens any more, but the stop of the feed
Stopped ==
    pc = "done" => (pc' \in {"done", "stopped"} /\ UNCHANGED <<lastret, lines, notifs, st>>)

\* C3: a null message read in the live state puts ConnectionBroken and makes
\* one reconnect(resub=True) attempt, delivering no bar; the load either goes
\* on, or (the reconnection failed) puts the one Disconnected notification of
\* the run and returns False, after which no bar is delivered
C3_LiveNullReconnects ==
    [][/\ LiveReadsNone =>
            /\ nreconnect' = nreconnect + 1
            /\ lines' = lines
            /\ \/ /\ LastOp' = "live:null:reconnected"
                  /\ notifs' = Append(notifs, <<"CONNBROKEN", 0>>)
                  /\ pc' = "load"
               \/ /\ LastOp' = "live:null:failed"
                  /\ notifs' = notifs \o <<<<"CONNBROKEN", 0>>, <<"DISCONNECTED", 0>>>>
                  /\ Count(notifs', "DISCONNECTED") = 1
                  /\ pc' = "done"
                  /\ lastret' = "False"
       /\ Stopped]_vars

\* the reconnection after a null message failed and the feed has stopped
C3_Witness == LastOp = "live:null:failed" /\ pc = "done" /\ lastret = "False"

\* C4: reading -1102 puts no notification, a backfill puts Delayed at most
\* once and not at all when Delayed is the last status put, so that the
\* notifications never hold two Delayed in a row
C4_DelayedOnce ==
    [][/\ LiveReadsCode(CONNRESTORED_KEPT_CODE) => notifs' = notifs
       /\ LiveBackfill =>
            notifs' = IF laststatus = "DELAYED" THEN notifs
                      ELSE Append(notifs, <<"DELAYED", 0>>)
       /\ \A i \in 1..(Len(notifs') - 1) :
            ~(notifs'[i][1] = "DELAYED" /\ notifs'[i + 1][1] = "DELAYED")]_vars

\* -1102 was read twice in a row, the second time with the backfill already
\* pending, then a backfill started while Delayed was the last status: the
\* notifications hold one Delayed
C4_Witness ==
    /\ ~p.backfill_start
    /\ \E k \in 1..(Len(ops) - 2) :
          ops[k] = "live:1102" /\ ops[k + 1] = "live:1102" /\ ops[k + 2] = "live:backfill"
    /\ Count(notifs, "DELAYED") = 1

\* the begin of the last historical request
RequestedBegin == histreq[1].dtbegin
RequestedEnd == histreq[1].dtend

\* C5 as claimed: begin is the last delivered bar's timestamp when at least 2
\* bars were delivered, the fromdate floor when exactly one bar was delivered
\* and a floor is set, and unbounded otherwise
C5_BeginCountsDelivered ==
    LastOp = "live:backfill" =>
        RequestedBegin =
            IF Len(lines) >= 2 THEN num2date(lines[Len(lines)].datetime)
            ELSE IF Len(lines) = 1 /\ p.fromdate > NegInf THEN num2date(p.fromdate)
            ELSE NoneDate

\* C5 as amended: begin is the last delivered bar's timestamp when at least
\* one bar was delivered (the series, forwarded for the bar being loaded, is
\* longer than 1), the fromdate floor when no bar was delivered yet and a
\* floor is set, and unbounded otherwise
C5_BeginCountsForwarded ==
    LastOp = "live:backfill" =>
        RequestedBegin =
            IF Len(lines) >= 1 THEN num2date(lines[Len(lines)].datetime)
            ELSE IF p.fromdate > NegInf THEN num2date(p.fromdate)
            ELSE NoneDate

\* a backfill was requested with exactly one bar delivered and a floor set
C5_Witness ==
    /\ LastOp = "live:backfill"
    /\ Len(lines) = 1
    /\ p.fromdate > NegInf
    /\ RequestedBegin = num2date(lines[1].datetime)

\* C6: a feed started with historical=True makes one historical request, from
\* the configured fromdate to the configured todate (each unbounded when not
\* set), delivers a dated message exactly when its timestamp is later than the
\* last delivered bar (or there is none, or late-through is on), and at the end
\* of the stream puts Disconnected and returns False; it never enters the live
\* state, never reconnects and never subscribes to live data
C6_HistoricalOnly ==
    [][p.historical =>
        /\ st' # ST_LIVE
        /\ nreconnect' = 0
        /\ nreqdata' = 0
        /\ nhistreq' <= 1
        /\ nhistreq' = 1 =>
             /\ RequestedEnd' = (IF p.todate < PosInf THEN num2date(p.todate) ELSE NoneDate)
             /\ RequestedBegin' = (IF p.fromdate > NegInf THEN num2date(p.fromdate) ELSE NoneDate)
        /\ HistBar => IF Admissible(HistCandidate) THEN Delivers(HistCandidate) ELSE Skips
        /\ (FeedStep /\ InHist /\ Head(qhist) = EndOfHist) =>
             /\ notifs' = Append(notifs, <<"DISCONNECTED", 0>>)
             /\ lines' = lines
             /\ pc' = "done"
             /\ lastret' = "False"
        /\ Stopped]_vars

\* a historical-only feed with both dates set delivered two ascending bars,
\* read the end of the stream and stopped
C6_Witness ==
    /\ p.historical
    /\ ~p.seeded
    /\ p.fromdate > NegInf
    /\ p.todate < PosInf
    /\ Len(lines) = 2
    /\ LastOp = "hist:end:historical"
    /\ pc = "done"

\* no bar was delivered by the load call so far
NoBarThisCall == \A k \in DOMAIN ops : ops[k] \notin {"live:bar", "hist:bar", "from:bar"}

\* C7: reading -354 in the live state delivers no bar (the load call has
\* delivered none), puts one NotSubscribed notification, returns False without
\* a reconnect, a resubscription or a historical request, and the feed stops
C7_LiveNotSubscribedTerminal ==
    [][/\ LiveReadsCode(NOTSUBSCRIBED_CODE) =>
            /\ notifs' = Append(notifs, <<"NOTSUBSCRIBED", 0>>)
            /\ Count(notifs', "NOTSUBSCRIBED") = 1
            /\ lines' = lines
            /\ NoBarThisCall'
            /\ pc' = "done"
            /\ lastret' = "False"
            /\ nreconnect' = nreconnect
            /\ nreqdata' = nreqdata
            /\ nhistreq' = nhistreq
       /\ Stopped]_vars

\* -354 was read in the live state and the feed has stopped
C7_Witness == LastOp = "live:notsubscribed" /\ pc = "done" /\ lastret = "False"

\* the timestamp a live data message carries
LiveStamp(msg) == IF msg.kind = "rtvol" THEN msg.datetime ELSE msg.time

\* C8: a data message read in the live state with the backfill pending is kept
\* in the deferred slot and the historical request ends at its timestamp; the
\* slot keeps it for the whole backfill; when the live state finds the slot
\* occupied, no backfill is pending and the step gives that message to the
\* bar assembler without reading the live queue
C8_DeferredMessage ==
    [][/\ (FeedStep /\ InLive /\ LiveMsgReady /\ ~IsNone(LiveMsg) /\ ~IsInteger(LiveMsg)
            /\ statelivereconn) =>
            /\ storedmsg' = <<LiveMsg>>
            /\ nhistreq' = nhistreq + 1
            /\ RequestedEnd' = LiveStamp(LiveMsg)
            /\ st' = ST_HISTORBACK
            /\ lines' = lines
       /\ (st = ST_HISTORBACK /\ ~p.historical) => storedmsg # <<>>
       /\ (FeedStep /\ st = ST_HISTORBACK /\ st' = ST_LIVE) =>
            /\ Head(qhist) = EndOfHist
            /\ storedmsg' = storedmsg
       /\ (FeedStep /\ InLive /\ storedmsg # <<>>) =>
            /\ ~statelivereconn
            /\ qlive' = qlive
            /\ storedmsg' = <<>>
            /\ LastOp' \in {"live:bar", "live:late"}
            /\ IF Admissible(date2num(LiveStamp(storedmsg[1])))
               THEN Delivers(date2num(LiveStamp(storedmsg[1])))
               ELSE Skips]_vars

\* a backfill ran to its end and the deferred message was then given to the
\* assembler, with a message waiting in the live queue
C8_Witness ==
    /\ qlive # <<>>
    /\ \E k \in 1..(Len(ops) - 1) :
          ops[k] = "hist:end:live" /\ ops[k + 1] \in {"live:bar", "live:late"}

\* C9: a live wait that times out returns None, which is neither True nor
\* False, and changes nothing else: state, pending backfill, deferred slot,
\* output series, notifications, queues and requests stay as they are
C9_TimeoutNoData ==
    [][(FeedStep /\ InLive /\ ~LiveMsgReady) =>
            /\ lastret' = "None"
            /\ lastret' \notin {"True", "False"}
            /\ pc' = "idle"
            /\ UNCHANGED <<st, statelivereconn, storedmsg, lines, origin, notifs,
                           laststatus, qlive, qhist, histreq, nhistreq, nreconnect,
                           nreqdata, contract, usertvol>>]_vars

\* a live wait timed out with the backfill pending
C9_Witness == LastOp = "live:timeout" /\ lastret = "None" /\ statelivereconn

\* C10 as claimed: -354 and -420, read in the live or in the historical
\* state, put one NotSubscribed notification and make the load return False
C10_RejectionsTerminal ==
    [][\A c \in {NOTSUBSCRIBED_CODE, NOPERMISSION_CODE} :
            (LiveReadsCode(c) \/ HistReadsCode(c)) =>
                /\ notifs' = Append(notifs, <<"NOTSUBSCRIBED", 0>>)
                /\ pc' = "done"
                /\ lastret' = "False"]_vars

\* the load call returns False in this step
ReturnsFailure == pc # "done" /\ pc' = "done" /\ lastret' = "False"

\* the step reads one of the rejection codes
ReadsRejection ==
    \/ LiveReadsCode(NOTSUBSCRIBED_CODE) \/ LiveReadsCode(NOPERMISSION_CODE)
    \/ HistReadsCode(NOTSUBSCRIBED_CODE) \/ HistReadsCode(NOPERMISSION_CODE)

\* C11 as claimed: a failure return of the load of a feed that has a contract,
\* other than the clean end of data of a historical-only feed, comes from a
\* reconnect attempt that failed or from a rejection code, also when a None is
\* read in the historical state
C11_FailureAfterReconnect ==
    [][(ReturnsFailure /\ contract /\ ~(InHist /\ Head(qhist) = EndOfHist)) =>
            \/ nreconnect' = nreconnect + 1
            \/ ReadsRejection]_vars

\* the terminal notifications put so far
TerminalCount(ns) == Count(ns, "DISCONNECTED") + Count(ns, "NOTSUBSCRIBED")

\* C12 as claimed: a load call that has returned False, the one of a feed
\* without a contract included, goes with exactly one terminal notification
\* (Disconnected or NotSubscribed)
C12_FailureNotifiedOnce ==
    (pc = "done" /\ lastret = "False") => TerminalCount(notifs) = 1

\* the feed reads a connection loss / a data message in the live state
LossCodes == {CONNBROKEN_CODE, CONNRESTORED_LOST_CODE, CONNRESTORED_KEPT_CODE}
LiveReadsLoss ==
    \/ LiveReadsNone
    \/ \E c \in LossCodes : LiveReadsCode(c)
LiveReadsData ==
    FeedStep /\ InLive /\ LiveMsgReady /\ ~IsNone(LiveMsg) /\ ~IsInteger(LiveMsg)

\* C13: with backfill-on-reconnect on, a connection loss the live state
\* recovers from (None with a successful reconnection, -1100, -1101, -1102)
\* leaves the backfill pending, the pending backfill is only cleared by
\* issuing a historical request, and a data message read while it is pending
\* issues that request and delivers no bar; with backfill-on-reconnect off a
\* loss issues no historical request and marks no backfill, so that the only
\* request such a feed ever makes is the one of backfill-at-start
C13_LossThenBackfill ==
    [][/\ (LiveReadsLoss /\ pc' = "load" /\ p.backfill) => statelivereconn'
       /\ (statelivereconn /\ ~statelivereconn' /\ p.backfill) => nhistreq' = nhistreq + 1
       /\ (LiveReadsData /\ statelivereconn) =>
            /\ nhistreq' = nhistreq + 1
            /\ st' = ST_HISTORBACK
            /\ lines' = lines
       /\ (LiveReadsLoss /\ ~p.backfill) =>
            /\ nhistreq' = nhistreq
            /\ ~statelivereconn => ~statelivereconn'
       /\ (~p.backfill /\ ~p.historical) =>
            nhistreq' <= (IF p.backfill_start THEN 1 ELSE 0)]_vars

\* a feed without backfill-at-start read a connection loss and then a data
\* message, which started the backfill of the gap
C13_Witness ==
    /\ p.backfill
    /\ ~p.backfill_start
    /\ LastOp = "live:backfill"
    /\ \E k \in DOMAIN ops :
          ops[k] \in {"live:null:reconnected", "live:1100", "live:1101", "live:1102"}

\* the driver stops the feed in this step
StopStep == pc # "stopped" /\ pc' = "stopped"

UnknownSkipped(c) ==
    /\ notifs' = Append(notifs, <<"UNKNOWN", c>>)
    /\ lines' = lines
    /\ st' = st
    /\ statelivereconn' = statelivereconn
    /\ pc' = "load"
    /\ lastret' # "False"

\* C15: an integer outside the set its state recognises (-354, -1100, -1101,
\* -1102 in the live state; -354, -420 in the historical state) puts exactly
\* one Unknown notification carrying the code and is skipped: no bar, the
\* same state, the same pending backfill, no failure return
C15_UnknownSkipped ==
    [][/\ \A c \in LiveCodes \ {NOTSUBSCRIBED_CODE, CONNBROKEN_CODE, CONNRESTORED_LOST_CODE,
                                CONNRESTORED_KEPT_CODE} :
            LiveReadsCode(c) => UnknownSkipped(c)
       /\ \A c \in HistCodes \ {NOTSUBSCRIBED_CODE, NOPERMISSION_CODE} :
            HistReadsCode(c) => UnknownSkipped(c)]_vars

\* an unrecognised integer was read in the historical state and notified
C15_Witness ==
    /\ LastOp = "hist:unknown"
    /\ pc = "load"
    /\ notifs[Len(notifs)] = <<"UNKNOWN", OTHER_CODE>>

\* C16 as claimed: after start() the tick-based RTVolume is the live source
\* exactly when rtbar is off, or (timeframe, compression) is below
\* (Seconds, 5), or the asset is CASH; the 5-second bars otherwise
C16_SourceSelection ==
    pc # "new" =>
        (usertvol <=> \/ ~p.rtbar
                      \/ p.timeframe < Seconds
                      \/ (p.timeframe = Seconds /\ p.compression < 5)
                      \/ p.cashtype)

\* the four states of _load
Modes == {ST_FROM, ST_START, ST_LIVE, ST_HISTORBACK}

\* C17: a started feed is in exactly one of the four states, and a step that
\* changes the state goes from SeedReplay to Initializing, from Initializing
\* to HistoricalBackfill (historical-only) or to Live (not historical-only),
\* from Live to HistoricalBackfill, or from HistoricalBackfill to Live (not
\* historical-only); nothing leads back to SeedReplay or Initializing
C17_ModeTransitions ==
    [][pc # "new" =>
        /\ st \in Modes
        /\ st' \in Modes
        /\ st' # st =>
             \/ st = ST_FROM /\ st' = ST_START
             \/ st = ST_START /\ st' = ST_HISTORBACK /\ p.historical
             \/ st = ST_START /\ st' = ST_LIVE /\ ~p.historical
             \/ st = ST_LIVE /\ st' = ST_HISTORBACK
             \/ st = ST_HISTORBACK /\ st' = ST_LIVE /\ ~p.historical]_vars

\* a seeded feed went through SeedReplay, Initializing, Live and
\* HistoricalBackfill and is back in Live
C17_Witness ==
    /\ p.seeded
    /\ lines # <<>>
    /\ st = ST_LIVE
    /\ LastOp = "hist:end:live"

\* the feed takes the Initializing step of a feed that wants live data
StartsLive == FeedStep /\ pc = "load" /\ st = ST_START /\ ~p.historical

\* no data message of the live queue was given to the assembler or deferred yet
NoLiveDataYet == nhistreq = 0 /\ \A i \in DOMAIN origin : origin[i] # "live"

\* C18 as claimed: Initializing without historical-only makes one
\* reconnect(resub=True) attempt; when it fails Disconnected is put and the
\* load returns False without entering Live; when it succeeds the pending
\* backfill is set to backfill-at-start, Delayed is put exactly when
\* backfill-at-start is off and the state is Live; and with backfill-at-start
\* on the first live data message issues a historical request instead of
\* being delivered
C18_StartLive ==
    [][/\ StartsLive =>
            /\ nreconnect' = nreconnect + 1
            /\ \/ /\ notifs' = Append(notifs, <<"DISCONNECTED", 0>>)
                  /\ ReturnsFailure
                  /\ st' # ST_LIVE
               \/ /\ statelivereconn' = p.backfill_start
                  /\ notifs' = IF p.backfill_start THEN notifs
                               ELSE Append(notifs, <<"DELAYED", 0>>)
                  /\ st' = ST_LIVE
                  /\ pc' = "load"
       /\ (LiveReadsData /\ p.backfill_start /\ NoLiveDataYet) =>
            /\ nhistreq' = 1
            /\ lines' = lines]_vars

\* C19 as claimed: a -1101 read right after a -1101 issues no further
\* subscription request and leaves the pending backfill as the first one set
\* it, whatever backfill-on-reconnect is; -1102 never issues a subscription
\* request, and read right after a -1102 leaves the pending backfill as it is
C19_ReconnectCodesIdempotent ==
    [][/\ (LiveReadsCode(CONNRESTORED_LOST_CODE) /\ LastOp = "live:1101") =>
            /\ nreqdata' = nreqdata
            /\ statelivereconn' = statelivereconn
       /\ LiveReadsCode(CONNRESTORED_KEPT_CODE) => nreqdata' = nreqdata
       /\ (LiveReadsCode(CONNRESTORED_KEPT_CODE) /\ LastOp = "live:1102") =>
            statelivereconn' = statelivereconn]_vars

\* C20: the deferred slot holds at most one message and a step never replaces
\* a message it holds by another; a historical request is issued only by a
\* step taken in Initializing or Live, which enters HistoricalBackfill; and no
\* step of the feed taken in HistoricalBackfill reads the live queue
C20_OneReconciliation ==
    [][/\ Len(storedmsg') <= 1
       /\ (storedmsg # <<>> /\ storedmsg' # <<>>) => storedmsg' = storedmsg
       /\ nhistreq' # nhistreq =>
            /\ st \in {ST_START, ST_LIVE}
            /\ st' = ST_HISTORBACK
            /\ nhistreq' = nhistreq + 1
       /\ (FeedStep /\ st = ST_HISTORBACK) => qlive' = qlive]_vars

\* a backfill is running with the deferred message kept: a historical bar was
\* delivered while a message waits in the live queue
C20_Witness ==
    /\ st = ST_HISTORBACK
    /\ storedmsg # <<>>
    /\ qlive # <<>>
    /\ origin # <<>>
    /\ origin[Len(origin)] = "hist"

\* the step appends the bar b to the output series and returns True
Emits(b) == lines' = Append(lines, b) /\ pc' = "idle" /\ lastret' = "True"

\* the step rejects its candidate: the output series stays as it is
Rejects == lines' = lines /\ origin' = origin /\ pc' = "load"

\* C21: an accepted tick gives a bar with open = high = low = close = the tick
\* price, volume = the tick size and open interest 0; an accepted real-time or
\* historical bar gives a bar with the message's open, high, low, close and
\* volume and open interest 0; the timestamp is the message's datetime / time
\* (live) or date (historical); a rejected candidate leaves the output series
\* as it is and the load goes on
C21_AssembledFields ==
    [][/\ (LiveReadsData /\ ~statelivereconn /\ usertvol) =>
            IF Admissible(date2num(LiveMsg.datetime))
            THEN Emits([datetime |-> date2num(LiveMsg.datetime),
                        open |-> LiveMsg.price, high |-> LiveMsg.price,
                        low |-> LiveMsg.price, close |-> LiveMsg.price,
                        volume |-> LiveMsg.size, openinterest |-> 0])
            ELSE Rejects
       /\ (LiveReadsData /\ ~statelivereconn /\ ~usertvol) =>
            IF Admissible(date2num(LiveMsg.time))
            THEN Emits([datetime |-> date2num(LiveMsg.time),
                        open |-> LiveMsg.open, high |-> LiveMsg.high,
                        low |-> LiveMsg.low, close |-> LiveMsg.close,
                        volume |-> LiveMsg.volume, openinterest |-> 0])
            ELSE Rejects
       /\ (FeedStep /\ InHist /\ Head(qhist).kind = "hist" /\ Head(qhist) # EndOfHist) =>
            IF Admissible(date2num(Head(qhist).date))
            THEN Emits([datetime |-> date2num(Head(qhist).date),
                        open |-> Head(qhist).open, high |-> Head(qhist).high,
                        low |-> Head(qhist).low, close |-> Head(qhist).close,
                        volume |-> Head(qhist).volume, openinterest |-> 0])
            ELSE Rejects]_vars

\* a tick was delivered as a bar and the next tick read was rejected
C21_Witness ==
    /\ usertvol
    /\ LastOp = "live:late"
    /\ origin # <<>>
    /\ origin[Len(origin)] = "live"
    /\ lines[Len(lines)].open = lines[Len(lines)].close

\* C22: after start() the state is SeedReplay exactly when a seed source was
\* given, Initializing otherwise; a load step in SeedReplay with a bar left
\* takes exactly one bar from the seed source, appends it unchanged to the
\* output series and returns True; with the source exhausted it moves to
\* Initializing and the same load call goes on; neither makes a request, a
\* reconnection or a notification
C22_SeedReplay ==
    [][/\ (pc = "new" /\ pc' # "new") => st' = (IF p.seeded THEN ST_FROM ELSE ST_START)
       /\ (FeedStep /\ pc = "load" /\ st = ST_FROM) =>
            /\ UNCHANGED <<notifs, histreq, nhistreq, nreconnect, nreqdata, subscribed>>
            /\ IF backfill_from # <<>>
               THEN /\ Emits(Head(backfill_from))
                    /\ backfill_from' = Tail(backfill_from)
                    /\ st' = ST_FROM
               ELSE /\ st' = ST_START
                    /\ pc' = "load"
                    /\ lines' = lines]_vars

\* a seeded feed replayed two seed bars, found the source exhausted and is in
\* Initializing within that load call
C22_Witness ==
    /\ p.seeded
    /\ Len(lines) >= 2
    /\ LastOp = "from:consumed"
    /\ st = ST_START
    /\ pc = "load"

\* the step puts a Live notification
PutsLive == Count(notifs', "LIVE") > Count(notifs, "LIVE")

C24_PendingUntilRequest ==
    [][(statelivereconn /\ ~statelivereconn') => nhistreq' = nhistreq + 1]_vars

\* the feed reads a dated message the assembler rejects, or an integer that
\* is no rejection, from the historical queue
HistReadsSkipped ==
    /\ FeedStep
    /\ InHist
    /\ \/ /\ Head(qhist).kind = "hist"
          /\ Head(qhist) # EndOfHist
          /\ ~Admissible(date2num(Head(qhist).date))
       \/ /\ IsInteger(Head(qhist))
          /\ Head(qhist).value \notin {NOTSUBSCRIBED_CODE, NOPERMISSION_CODE}

\* C25: with a gateway that ends every historical stream (end of the data,
\* None or a rejection) and a driver that keeps pulling, a feed in
\* HistoricalBackfill eventually is in Live or has returned a failure; a
\* dated message the assembler rejects and an unknown integer leave the feed
\* in the loop, in HistoricalBackfill, without a failure
C25_BackfillEnds ==
    /\ (st = ST_HISTORBACK) ~> (st = ST_LIVE \/ pc = "done")
    /\ [][HistReadsSkipped =>
            /\ pc' = "load"
            /\ st' = ST_HISTORBACK
            /\ lastret' # "False"
            /\ lines' = lines]_vars

\* a backfill skipped an overlapping bar or an unknown integer, read the end
\* of the stream and the feed is back in Live
C25_Witness ==
    /\ st = ST_LIVE
    /\ LastOp = "hist:end:live"
    /\ \E k \in DOMAIN ops : ops[k] \in {"hist:late", "hist:unknown"}

\* the step is a cached query of the broker
CachedQuery == bret' # bret /\ bret'.cached

\* C26 as claimed: a cached get_cash returns the cached cash of the exchange
\* it names and a cached get_value the cached value of the exchange it names;
\* with no exchange named they return the aggregated total_cash / total_value
C26_CachedQueriesSymmetric ==
    [][CachedQuery =>
        bret'.result =
            IF bret'.op = "get_cash"
            THEN (IF bret'.exchange = None THEN total_cash
                  ELSE brokers[Lower(bret'.exchange)].cash)
            ELSE (IF bret'.exchange = None THEN total_value
                  ELSE brokers[Lower(bret'.exchange)].value)]_vars

====
